---- MODULE Spec2Model ----
(***************************************************************************)
(* Model of app.py, the CDK entry point of ghgc-auth.  The script is a     *)
(* straight-line program: it loads the configuration, asks git for the     *)
(* commit and the tag, builds the tag mapping, constructs the stack, calls *)
(* the stack's builder methods, applies the tags and synthesizes the app.  *)
(* Every statement is one action; pc is the statement about to run.  Each  *)
(* call into a collaborator (config, git, the stack, cdk) either returns   *)
(* or raises; an exception nothing catches ends the run (pc "terminated"). *)
(* calls is the log of the calls made on the stack, on cdk.Tags and on the *)
(* app, in the order they were made.                                       *)
(***************************************************************************)
EXTENDS Naturals, Sequences, FiniteSets, TLC

VARIABLES
    pc,                   \* the statement about to run
    environ,              \* os.environ, as far as resource names could use it
    auth_app_settings,    \* config.auth_app_settings (imported, line 11)
    config,               \* config (line 13)
    git_sha,              \* line 14
    git_tag,              \* lines 15-18
    gitTagOutcome,        \* how the git describe call of line 16 ended
    tags,                 \* the tags dict of lines 20-27, in insertion order
    app,                  \* line 29
    AuthStack,            \* what the name AuthStack is bound to
    stack,                \* line 30
    stac_registry_scopes, \* line 101
    grp,                  \* which add_cognito_group call is next (lines 63-97)
    tagIdx,               \* position of the for loop of line 138 in tags
    calls,                \* log of the calls made on stack, cdk.Tags and app
    failedAt              \* the statement whose exception ended the run

vars == <<pc, environ, auth_app_settings, config, git_sha, git_tag,
          gitTagOutcome, tags, app, AuthStack, stack, stac_registry_scopes,
          grp, tagIdx, calls, failedAt>>

----------------------------------------------------------------------------
(* Values *)

\* Python's None, and a name that has not been assigned yet.
None == "<None>"
Unset == "<unset>"

\* Number of distinct scope objects the resource server may hand back.
MaxScopeIds == 3

Owners == {"ghgc-team"}
Stages == {"dev", "prod"}
AppNames == {"ghgc-auth"}
RoleArns == {None, "", "arn:aws:iam::1:role/managers"}
Thumbprints == {None, "", "9e99a48a"}
ProviderUrls == {None, "token.actions.githubusercontent.com"}
PolicyNames == {None, "mcp-tenantOperator"}
Prefixes == {"ghgc", "veda"}
GitShas == {"3f2a9c1"}
GitTags == {"v1.0.0", "v1.0.0-2-g3f2a9c1"}

\* bool(v) for an Optional[str]: None and the empty string are false.
Truthy(v) == v # None /\ v # ""

ConfigValues ==
    [owner : Owners, stage : Stages, app_name : AppNames,
     data_managers_role_arn : RoleArns,
     oidc_thumbprint : Thumbprints, oidc_provider_url : ProviderUrls]

UnsetConfig ==
    [owner |-> Unset, stage |-> Unset, app_name |-> Unset,
     data_managers_role_arn |-> Unset,
     oidc_thumbprint |-> Unset, oidc_provider_url |-> Unset]

NoStack == [cls |-> Unset, id |-> Unset, boundary |-> None]

----------------------------------------------------------------------------
(* Control flow *)

\* The statements with the programmatic client registered before the OIDC
\* provider.
ProgramOrderClientFirst ==
    << "load_config", "git_sha", "git_tag", "build_tags", "new_app",
       "new_stack", "class_def", "data_managers", "groups",
       "resource_server", "service_client", "programmatic_client", "oidc",
       "apply_tags", "synth", "done" >>

\* The statements of the module, top to bottom.
ProgramOrder ==
    << "load_config", "git_sha", "git_tag", "build_tags", "new_app",
       "new_stack", "class_def", "data_managers", "groups",
       "resource_server", "service_client", "oidc", "programmatic_client",
       "apply_tags", "synth", "done" >>

IndexOf(seq, p) == CHOOSE i \in 1..Len(seq) : seq[i] = p

\* The statement that follows p when p completes normally.
PcAfter(p) == ProgramOrder[IndexOf(ProgramOrder, p) + 1]

\* An exception that is caught and dropped (try: ... except: pass): the run
\* goes on with the next statement.
RaiseSwallowed(p) ==
    /\ pc' = ProgramOrder[IndexOf(ProgramOrder, p) + 1]
    /\ failedAt' = p

\* An exception leaves the statement at p and nothing catches it.
Raise(p) ==
    /\ pc' = "terminated"
    /\ failedAt' = p

Goto(p) ==
    /\ pc' = PcAfter(p)
    /\ failedAt' = failedAt

----------------------------------------------------------------------------
(* The values the statements compute *)

\* line 18
NoTag == "no-tag"

\* What check_output / decode of line 16 can raise.
GitDescribeErrors == {"CalledProcessError", "OSError", "UnicodeDecodeError"}

\* An except clause naming an exception git describe never raises.
CaughtTimeoutOnly(exc) == exc = "TimeoutExpired"

\* line 17: except subprocess.CalledProcessError
Caught(exc) == exc = "CalledProcessError"

\* The dict with GitTag left out when there is no tag to report.
TagsDictWithoutNoTag(cfg, sha, tag) ==
    << <<"Project", "ghgc">>,
       <<"Owner", cfg.owner>>,
       <<"Client", "nasa-impact">>,
       <<"Stack", cfg.stage>>,
       <<"GitCommit", sha>> >>
    \o (IF tag = "no-tag" THEN <<>> ELSE << <<"GitTag", tag>> >>)

\* lines 20-27: the dict literal, as its (key, value) items in insertion order
TagsDict(cfg, sha, tag) ==
    << <<"Project", "ghgc">>,
       <<"Owner", cfg.owner>>,
       <<"Client", "nasa-impact">>,
       <<"Stack", cfg.stage>>,
       <<"GitCommit", sha>>,
       <<"GitTag", tag>> >>

\* line 30: f"{config.app_name}-stack-{config.stage}"
ConstructId(cfg) == cfg.app_name \o "-stack-" \o cfg.stage

\* lines 39-49: the __init__ of the class AuthStack that app.py itself defines
\* looks the boundary policy up and applies it when a policy name is configured.
LocalInitBoundary(settings) ==
    IF Truthy(settings.permissions_boundary_policy_name)
    THEN settings.permissions_boundary_policy_name
    ELSE None

\* line 30: AuthStack(app, id), with whatever class the name is bound to when
\* the statement runs.  boundary is the policy that lines 40-49 applied to the
\* new object, None when they did not run for it.
Construct(cls, id, settings) ==
    [cls |-> cls, id |-> id,
     boundary |-> IF cls = "app.AuthStack"
                  THEN LocalInitBoundary(settings) ELSE None]

\* The guard written as a test against None only.
DataManagersGuardIsNotNone(cfg) == cfg.data_managers_role_arn # None

\* line 55: if data_managers_role_arn := config.data_managers_role_arn
DataManagersGuard(cfg) == Truthy(cfg.data_managers_role_arn)

\* lines 56-60
DataManagersCall(cfg) ==
    [op |-> "add_cognito_group_with_existing_role",
     name |-> "ghgc-data-store-managers",
     description |-> "Authenticated users assume read write GHGC data access role",
     role_arn |-> cfg.data_managers_role_arn]

\* BucketPermissions.read_write / read_only
read_write == "read_write"
read_only == "read_only"

\* lines 66-70
StagingWritersPermissions ==
    "ghgc-data-store-dev" :> read_write
    @@ "ghgc-data-store" :> read_write
    @@ "ghgc-data-store-staging" :> read_write

\* The writers group given the staging-writers mapping.
WritersPermissionsWithStaging ==
    "ghgc-data-store-dev" :> read_write
    @@ "ghgc-data-store" :> read_write
    @@ "ghgc-data-store-staging" :> read_write

\* lines 75-78
WritersPermissions ==
    "ghgc-data-store-dev" :> read_write
    @@ "ghgc-data-store" :> read_write

\* lines 84-88
StagingReadersPermissions ==
    "ghgc-data-store-dev" :> read_only
    @@ "ghgc-data-store" :> read_only
    @@ "ghgc-data-store-staging" :> read_only

\* lines 94-96
ReadersPermissions ==
    "ghgc-data-store" :> read_only

\* lines 63-97: the four add_cognito_group calls, in program order
CognitoGroupCalls ==
    << [op |-> "add_cognito_group",
        name |-> "ghgc-staging-writers",
        description |-> "Users that have read/write-access to the GHGC store and staging datastore",
        bucket_permissions |-> StagingWritersPermissions],
       [op |-> "add_cognito_group",
        name |-> "ghgc-writers",
        description |-> "Users that have read/write-access to the GHGC store",
        bucket_permissions |-> WritersPermissions],
       [op |-> "add_cognito_group",
        name |-> "ghgc-staging-readers",
        description |-> "Users that have read-access to the GHGC store and staging data store",
        bucket_permissions |-> StagingReadersPermissions],
       [op |-> "add_cognito_group",
        name |-> "ghgc-readers",
        description |-> "Users that have read-access to the GHGC store",
        bucket_permissions |-> ReadersPermissions] >>

\* lines 103-107: the keys of supported_scopes
SupportedScopes == {"stac:register", "stac:cancel", "stac:list"}

\* lines 101-108
ResourceServerCall ==
    [op |-> "add_resource_server",
     name |-> "ghgc-stac-ingestion-registry",
     supported_scopes |-> SupportedScopes]

\* What add_resource_server can return: one scope object per supported scope,
\* objects being told apart by their identity.
ScopeIds == 1..MaxScopeIds
ScopeReturns ==
    { r \in [SupportedScopes -> ScopeIds] :
        \A a, b \in SupportedScopes : a # b => r[a] # r[b] }

\* The client granted every scope of the resource server.
ServiceClientAllScopes(scopes) ==
    << scopes["stac:register"], scopes["stac:cancel"], scopes["stac:list"] >>

\* lines 116-118: scopes=[stac_registry_scopes["stac:register"]]
ServiceClientScopes(scopes) == << scopes["stac:register"] >>

\* lines 114-119
ServiceClientCall(scopes) ==
    [op |-> "add_service_client",
     name |-> "ghgc-workflows",
     scopes |-> ServiceClientScopes(scopes)]

\* The guard written with or.
OidcGuardEither(cfg) ==
    Truthy(cfg.oidc_thumbprint) \/ Truthy(cfg.oidc_provider_url)

\* line 125: if oidc_thumbprint and oidc_provider_url
OidcGuard(cfg) == Truthy(cfg.oidc_thumbprint) /\ Truthy(cfg.oidc_provider_url)

\* line 127: f"ghgc-oidc-provider-{config.stage}"
OidcProviderName(cfg) == "ghgc-oidc-provider-" \o cfg.stage

\* lines 126-130
OidcCall(cfg) ==
    [op |-> "add_oidc_provider",
     name |-> OidcProviderName(cfg),
     url |-> cfg.oidc_provider_url,
     thumbprint |-> cfg.oidc_thumbprint]

\* The client name of the project this script was derived from.
ProgrammaticClientCallVeda ==
    [op |-> "add_programmatic_client", name |-> "veda-sdk"]

\* line 133
ProgrammaticClientCall ==
    [op |-> "add_programmatic_client", name |-> "ghgc-sdk"]

\* line 139: cdk.Tags.of(stack).add(key, value)
TagCall(item) ==
    [op |-> "Tags.add", name |-> item[1], value |-> item[2]]

\* line 141
SynthCall == [op |-> "synth", name |-> "app"]

----------------------------------------------------------------------------
Init ==
    /\ pc = "load_config"
    /\ environ \in [PROJ_PREFIX : Prefixes]
    /\ auth_app_settings \in [permissions_boundary_policy_name : PolicyNames]
    /\ config = UnsetConfig
    /\ git_sha = Unset
    /\ git_tag = Unset
    /\ gitTagOutcome = [result |-> "not_run", out |-> None]
    /\ tags = <<>>
    /\ app = Unset
    /\ AuthStack = "infra.stack.AuthStack"
    /\ stack = NoStack
    /\ stac_registry_scopes = <<>>
    /\ grp = 1
    /\ tagIdx = 1
    /\ calls = <<>>
    /\ failedAt = None

\* line 13: config = Config(_env_file=...)
LoadConfig ==
    /\ pc = "load_config"
    /\ \/ /\ \E c \in ConfigValues : config' = c
          /\ Goto("load_config")
       \/ /\ Raise("load_config")
          /\ UNCHANGED config
    /\ UNCHANGED <<environ, auth_app_settings, git_sha, git_tag, gitTagOutcome,
                   tags, app, AuthStack, stack, stac_registry_scopes, grp,
                   tagIdx, calls>>

\* line 14: git_sha = check_output(["git", "rev-parse", "HEAD"]).decode().strip()
GitSha ==
    /\ pc = "git_sha"
    /\ \/ /\ \E sha \in GitShas : git_sha' = sha
          /\ Goto("git_sha")
       \/ /\ Raise("git_sha")
          /\ UNCHANGED git_sha
    /\ UNCHANGED <<environ, auth_app_settings, config, git_tag, gitTagOutcome,
                   tags, app, AuthStack, stack, stac_registry_scopes, grp,
                   tagIdx, calls>>

\* lines 15-18: try: git_tag = check_output(["git", "describe", "--tags"])...
\*              except subprocess.CalledProcessError: git_tag = "no-tag"
GitTag ==
    /\ pc = "git_tag"
    /\ \/ \E tag \in GitTags :
            /\ git_tag' = tag
            /\ gitTagOutcome' = [result |-> "ok", out |-> tag]
            /\ Goto("git_tag")
       \/ \E exc \in GitDescribeErrors :
            /\ gitTagOutcome' = [result |-> exc, out |-> None]
            /\ IF Caught(exc)
               THEN /\ git_tag' = NoTag
                    /\ Goto("git_tag")
               ELSE /\ UNCHANGED git_tag
                    /\ Raise("git_tag")
    /\ UNCHANGED <<environ, auth_app_settings, config, git_sha, tags, app,
                   AuthStack, stack, stac_registry_scopes, grp, tagIdx, calls>>

\* lines 20-27
BuildTags ==
    /\ pc = "build_tags"
    /\ tags' = TagsDict(config, git_sha, git_tag)
    /\ Goto("build_tags")
    /\ UNCHANGED <<environ, auth_app_settings, config, git_sha, git_tag,
                   gitTagOutcome, app, AuthStack, stack, stac_registry_scopes,
                   grp, tagIdx, calls>>

\* line 29: app = cdk.App()
NewApp ==
    /\ pc = "new_app"
    /\ app' = "cdk.App"
    /\ Goto("new_app")
    /\ UNCHANGED <<environ, auth_app_settings, config, git_sha, git_tag,
                   gitTagOutcome, tags, AuthStack, stack, stac_registry_scopes,
                   grp, tagIdx, calls>>

\* line 30: stack = AuthStack(app, f"{config.app_name}-stack-{config.stage}")
NewStack ==
    /\ pc = "new_stack"
    /\ \/ /\ stack' = Construct(AuthStack, ConstructId(config), auth_app_settings)
          /\ Goto("new_stack")
       \/ /\ Raise("new_stack")
          /\ UNCHANGED stack
    /\ UNCHANGED <<environ, auth_app_settings, config, git_sha, git_tag,
                   gitTagOutcome, tags, app, AuthStack, stac_registry_scopes,
                   grp, tagIdx, calls>>

\* lines 33-52: the class statement rebinds the name AuthStack; it constructs
\* nothing.
ClassDef ==
    /\ pc = "class_def"
    /\ AuthStack' = "app.AuthStack"
    /\ Goto("class_def")
    /\ UNCHANGED <<environ, auth_app_settings, config, git_sha, git_tag,
                   gitTagOutcome, tags, app, stack, stac_registry_scopes, grp,
                   tagIdx, calls>>

\* A call on the stack (or on cdk.Tags, or on the app) made by the statement
\* at p: it is logged, and it returns or raises.
CallReturns(p, call) ==
    /\ calls' = Append(calls, call)
    /\ Goto(p)

CallRaises(p, call) ==
    /\ calls' = Append(calls, call)
    /\ Raise(p)

\* lines 55-60
DataManagers ==
    /\ pc = "data_managers"
    /\ IF DataManagersGuard(config)
       THEN \/ CallReturns("data_managers", DataManagersCall(config))
            \/ CallRaises("data_managers", DataManagersCall(config))
       ELSE /\ Goto("data_managers")
            /\ UNCHANGED calls
    /\ UNCHANGED <<environ, auth_app_settings, config, git_sha, git_tag,
                   gitTagOutcome, tags, app, AuthStack, stack,
                   stac_registry_scopes, grp, tagIdx>>

\* lines 63-97: the grp-th add_cognito_group call
AddCognitoGroup ==
    /\ pc = "groups"
    /\ \/ /\ calls' = Append(calls, CognitoGroupCalls[grp])
          /\ grp' = grp + 1
          /\ IF grp = Len(CognitoGroupCalls)
             THEN Goto("groups")
             ELSE UNCHANGED <<pc, failedAt>>
       \/ /\ CallRaises("groups", CognitoGroupCalls[grp])
          /\ UNCHANGED grp
    /\ UNCHANGED <<environ, auth_app_settings, config, git_sha, git_tag,
                   gitTagOutcome, tags, app, AuthStack, stack,
                   stac_registry_scopes, tagIdx>>

\* lines 101-108: stac_registry_scopes = stack.add_resource_server(...)
AddResourceServer ==
    /\ pc = "resource_server"
    /\ \/ /\ \E r \in ScopeReturns : stac_registry_scopes' = r
          /\ CallReturns("resource_server", ResourceServerCall)
       \/ /\ CallRaises("resource_server", ResourceServerCall)
          /\ UNCHANGED stac_registry_scopes
    /\ UNCHANGED <<environ, auth_app_settings, config, git_sha, git_tag,
                   gitTagOutcome, tags, app, AuthStack, stack, grp, tagIdx>>

\* lines 114-119
AddServiceClient ==
    /\ pc = "service_client"
    /\ \/ CallReturns("service_client", ServiceClientCall(stac_registry_scopes))
       \/ CallRaises("service_client", ServiceClientCall(stac_registry_scopes))
    /\ UNCHANGED <<environ, auth_app_settings, config, git_sha, git_tag,
                   gitTagOutcome, tags, app, AuthStack, stack,
                   stac_registry_scopes, grp, tagIdx>>

\* lines 123-130
AddOidcProvider ==
    /\ pc = "oidc"
    /\ IF OidcGuard(config)
       THEN \/ CallReturns("oidc", OidcCall(config))
            \/ CallRaises("oidc", OidcCall(config))
       ELSE /\ Goto("oidc")
            /\ UNCHANGED calls
    /\ UNCHANGED <<environ, auth_app_settings, config, git_sha, git_tag,
                   gitTagOutcome, tags, app, AuthStack, stack,
                   stac_registry_scopes, grp, tagIdx>>

\* line 133
AddProgrammaticClient ==
    /\ pc = "programmatic_client"
    /\ \/ CallReturns("programmatic_client", ProgrammaticClientCall)
       \/ CallRaises("programmatic_client", ProgrammaticClientCall)
    /\ UNCHANGED <<environ, auth_app_settings, config, git_sha, git_tag,
                   gitTagOutcome, tags, app, AuthStack, stack,
                   stac_registry_scopes, grp, tagIdx>>

\* lines 138-139: one iteration of for key, value in tags.items()
ApplyTag ==
    /\ pc = "apply_tags"
    /\ tagIdx <= Len(tags)
    /\ \/ /\ calls' = Append(calls, TagCall(tags[tagIdx]))
          /\ tagIdx' = tagIdx + 1
          /\ UNCHANGED <<pc, failedAt>>
       \/ /\ CallRaises("apply_tags", TagCall(tags[tagIdx]))
          /\ UNCHANGED tagIdx
    /\ UNCHANGED <<environ, auth_app_settings, config, git_sha, git_tag,
                   gitTagOutcome, tags, app, AuthStack, stack,
                   stac_registry_scopes, grp>>

\* line 138: the items are exhausted and the loop ends
TagsDone ==
    /\ pc = "apply_tags"
    /\ tagIdx > Len(tags)
    /\ Goto("apply_tags")
    /\ UNCHANGED <<environ, auth_app_settings, config, git_sha, git_tag,
                   gitTagOutcome, tags, app, AuthStack, stack,
                   stac_registry_scopes, grp, tagIdx, calls>>

\* line 141: app.synth()
Synth ==
    /\ pc = "synth"
    /\ \/ CallReturns("synth", SynthCall)
       \/ CallRaises("synth", SynthCall)
    /\ UNCHANGED <<environ, auth_app_settings, config, git_sha, git_tag,
                   gitTagOutcome, tags, app, AuthStack, stack,
                   stac_registry_scopes, grp, tagIdx>>

Next ==
    \/ LoadConfig
    \/ GitSha
    \/ GitTag
    \/ BuildTags
    \/ NewApp
    \/ NewStack
    \/ ClassDef
    \/ DataManagers
    \/ AddCognitoGroup
    \/ AddResourceServer
    \/ AddServiceClient
    \/ AddOidcProvider
    \/ AddProgrammaticClient
    \/ ApplyTag
    \/ TagsDone
    \/ Synth

Spec == Init /\ [][Next]_vars

----------------------------------------------------------------------------
(* Reading the log *)

Pos(p) == IF p \in {ProgramOrder[i] : i \in 1..Len(ProgramOrder)}
          THEN IndexOf(ProgramOrder, p) ELSE 0

\* The statement at p has run to its end (normally), or a later one raised.
Completed(p) ==
    IF pc = "terminated" THEN Pos(failedAt) > Pos(p) ELSE Pos(pc) > Pos(p)

CallsOf(op) == SelectSeq(calls, LAMBDA c : c.op = op)

Range(seq) == {seq[i] : i \in 1..Len(seq)}

AppliedTags == CallsOf("Tags.add")

TagKeys == {"Project", "Owner", "Client", "Stack", "GitCommit", "GitTag"}

\* All six iterations of the loop of line 138 have run.
TagsApplied ==
    \/ pc \in {"synth", "done"}
    \/ pc = "terminated" /\ failedAt = "synth"

----------------------------------------------------------------------------
(* C1: once the tag loop has run, the tags added to the stack carry exactly
   the keys Project, Owner, Client, Stack, GitCommit and GitTag, each added
   exactly once, whatever the configuration and however git describe ended;
   while the loop runs no other key and no key twice is added. *)
C1_TagKeySet ==
    /\ \A i, j \in 1..Len(AppliedTags) :
          i # j => AppliedTags[i].name # AppliedTags[j].name
    /\ {c.name : c \in Range(AppliedTags)} \subseteq TagKeys
    /\ TagsApplied =>
          /\ {c.name : c \in Range(AppliedTags)} = TagKeys
          /\ Len(AppliedTags) = 6

C1_Witness ==
    /\ pc = "done"
    /\ gitTagOutcome.result = "CalledProcessError"
    /\ Len(AppliedTags) = 6

----------------------------------------------------------------------------
(* C2 as stated: whenever git describe fails, in whatever way, the run does
   not end at that statement and git_tag is "no-tag". *)
C2_AnyFailureFallsBack ==
    gitTagOutcome.result \notin {"not_run", "ok"} =>
        /\ ~(pc = "terminated" /\ failedAt = "git_tag")
        /\ git_tag = NoTag

(* C2, amended: when git describe fails with CalledProcessError the run does
   not end there, git_tag is "no-tag" and the GitTag tag added to the stack is
   "no-tag"; when it succeeds git_tag and the GitTag tag are the retrieved
   tag; any other exception of that statement ends the run before anything
   is built. *)
C2_NoTagFallback ==
    /\ gitTagOutcome.result = "CalledProcessError" =>
          /\ git_tag = NoTag
          /\ ~(pc = "terminated" /\ failedAt = "git_tag")
          /\ \A c \in Range(AppliedTags) : c.name = "GitTag" => c.value = "no-tag"
          /\ TagsApplied => \E c \in Range(AppliedTags) : c.name = "GitTag"
    /\ gitTagOutcome.result = "ok" =>
          /\ git_tag = gitTagOutcome.out
          /\ \A c \in Range(AppliedTags) :
                c.name = "GitTag" => c.value = gitTagOutcome.out
          /\ TagsApplied => \E c \in Range(AppliedTags) : c.name = "GitTag"
    /\ gitTagOutcome.result \notin {"not_run", "ok", "CalledProcessError"} =>
          /\ pc = "terminated" /\ failedAt = "git_tag"
          /\ stack = NoStack /\ calls = <<>>

C2_Witness ==
    /\ pc = "done"
    /\ gitTagOutcome.result = "CalledProcessError"
    /\ stack # NoStack
    /\ \E c \in Range(AppliedTags) : c.name = "GitTag" /\ c.value = "no-tag"

----------------------------------------------------------------------------
DataManagerCalls == CallsOf("add_cognito_group_with_existing_role")

(* C3: add_cognito_group_with_existing_role is called iff
   config.data_managers_role_arn is present and non-empty: never when it is
   None or empty, exactly once (by the time the statement has run) when it is
   set, and then with the name "ghgc-data-store-managers" and the configured
   ARN as role_arn. *)
C3_DataManagersIffArn ==
    /\ Len(DataManagerCalls) <= 1
    /\ \A c \in Range(DataManagerCalls) :
          /\ c.name = "ghgc-data-store-managers"
          /\ c.role_arn = config.data_managers_role_arn
    /\ config.data_managers_role_arn \in {None, ""} => DataManagerCalls = <<>>
    /\ Completed("data_managers") =>
          (Len(DataManagerCalls) = 1
             <=> config.data_managers_role_arn \notin {None, ""})

C3_Witness ==
    /\ pc = "done"
    /\ Len(DataManagerCalls) = 1
    /\ DataManagerCalls[1].role_arn = "arn:aws:iam::1:role/managers"

C3_WitnessAbsent ==
    /\ pc = "done"
    /\ config.data_managers_role_arn = ""
    /\ DataManagerCalls = <<>>

----------------------------------------------------------------------------
GroupCalls == CallsOf("add_cognito_group")

\* The (name, permissions) pairs of the add_cognito_group calls made so far.
GroupMappings ==
    [i \in 1..Len(GroupCalls) |->
        <<GroupCalls[i].name, GroupCalls[i].bucket_permissions>>]

(* C4: once the group statements have run, exactly four add_cognito_group
   calls were made, one per group name, with staging-writers -> dev, store and
   staging read_write; writers -> dev and store read_write; staging-readers ->
   dev, store and staging read_only; readers -> store read_only.  At no time
   has a readers group read_write on a bucket, nor a non-staging group any
   permission on the staging bucket. *)
C4_GroupPermissions ==
    /\ Completed("groups") =>
          GroupMappings =
            << <<"ghgc-staging-writers",
                 [b \in {"ghgc-data-store-dev", "ghgc-data-store",
                         "ghgc-data-store-staging"} |-> "read_write"]>>,
               <<"ghgc-writers",
                 [b \in {"ghgc-data-store-dev", "ghgc-data-store"}
                    |-> "read_write"]>>,
               <<"ghgc-staging-readers",
                 [b \in {"ghgc-data-store-dev", "ghgc-data-store",
                         "ghgc-data-store-staging"} |-> "read_only"]>>,
               <<"ghgc-readers",
                 [b \in {"ghgc-data-store"} |-> "read_only"]>> >>
    /\ \A c \in Range(GroupCalls) :
          /\ c.name \in {"ghgc-staging-readers", "ghgc-readers"} =>
                \A b \in DOMAIN c.bucket_permissions :
                    c.bucket_permissions[b] # "read_write"
          /\ c.name \in {"ghgc-writers", "ghgc-readers"} =>
                "ghgc-data-store-staging" \notin DOMAIN c.bucket_permissions

C4_Witness ==
    /\ pc = "done"
    /\ Len(GroupCalls) = 4
    /\ GroupCalls[4].name = "ghgc-readers"

----------------------------------------------------------------------------
ServiceClientCalls == CallsOf("add_service_client")

(* C5: the scopes list passed to add_service_client("ghgc-workflows") holds
   exactly one element, the value add_resource_server returned under
   "stac:register"; the values returned under "stac:cancel" and "stac:list"
   are passed to no client registration. *)
C5_RegisterScopeOnly ==
    /\ \A c \in Range(ServiceClientCalls) :
          /\ c.name = "ghgc-workflows"
          /\ Len(c.scopes) = 1
          /\ c.scopes[1] = stac_registry_scopes["stac:register"]
          /\ stac_registry_scopes["stac:cancel"] \notin Range(c.scopes)
          /\ stac_registry_scopes["stac:list"] \notin Range(c.scopes)
    /\ \A c \in Range(CallsOf("add_programmatic_client")) :
          "scopes" \notin DOMAIN c

C5_Witness ==
    /\ pc = "done"
    /\ Len(ServiceClientCalls) = 1
    /\ ServiceClientCalls[1].scopes = << stac_registry_scopes["stac:register"] >>
    /\ stac_registry_scopes["stac:register"] = 2

----------------------------------------------------------------------------
BuilderCalls ==
    SelectSeq(calls, LAMBDA c : c.op \notin {"Tags.add", "synth"})

\* The fixed suffixes of the names each builder operation is called with.
NameSuffixes(op) ==
    CASE op = "add_cognito_group_with_existing_role" -> {"-data-store-managers"}
      [] op = "add_cognito_group" ->
            {"-staging-writers", "-writers", "-staging-readers", "-readers"}
      [] op = "add_resource_server" -> {"-stac-ingestion-registry"}
      [] op = "add_service_client" -> {"-workflows"}
      [] op = "add_oidc_provider" -> {"-oidc-provider-" \o config.stage}
      [] op = "add_programmatic_client" -> {"-sdk"}

(* C6 as stated: every name passed to the stack builder is the configured
   prefix followed by the call site's fixed suffix. *)
C6_NamesFollowConfiguredPrefix ==
    \A c \in Range(BuilderCalls) :
        c.name \in {environ.PROJ_PREFIX \o s : s \in NameSuffixes(c.op)}

(* C6, amended: every group, resource-server, client and OIDC-provider name
   passed to the stack builder is the literal "ghgc" followed by the call
   site's fixed suffix, whatever prefix the environment configures; only the
   OIDC provider's name is interpolated, from config.stage. *)
C6_NamesAreGhgcLiterals ==
    \A c \in Range(BuilderCalls) :
        c.name \in {"ghgc" \o s : s \in NameSuffixes(c.op)}

C6_Witness ==
    /\ pc = "done"
    /\ environ.PROJ_PREFIX = "veda"
    /\ \E c \in Range(BuilderCalls) : c.name = "ghgc-writers"
    /\ \E c \in Range(BuilderCalls) : c.name = "ghgc-oidc-provider-prod"
    /\ \E c \in Range(BuilderCalls) : c.name = "ghgc-sdk"

----------------------------------------------------------------------------
Rank(op) ==
    CASE op = "add_cognito_group_with_existing_role" -> 1
      [] op = "add_cognito_group" -> 2
      [] op = "add_resource_server" -> 3
      [] op = "add_service_client" -> 4
      [] op = "add_oidc_provider" -> 5
      [] op = "add_programmatic_client" -> 6
      [] op = "Tags.add" -> 7
      [] op = "synth" -> 8

(* C7: the calls are made in one fixed order: the data-managers group (if
   any), then the add_cognito_group calls, then add_resource_server, then
   add_service_client, then add_oidc_provider (if any), then
   add_programmatic_client, then the tag additions, then synth.  A service
   client is registered only after add_resource_server returned its scopes,
   and synth is called only after all six tags were added. *)
C7_FixedOrder ==
    /\ \A i, j \in 1..Len(calls) :
          i < j =>
            /\ Rank(calls[i].op) <= Rank(calls[j].op)
            /\ Rank(calls[i].op) = Rank(calls[j].op) =>
                  calls[i].op \in {"add_cognito_group", "Tags.add"}
    /\ \A j \in 1..Len(calls) :
          calls[j].op = "add_service_client" =>
            /\ \E i \in 1..(j - 1) : calls[i].op = "add_resource_server"
            /\ DOMAIN stac_registry_scopes = SupportedScopes
    /\ \A j \in 1..Len(calls) :
          calls[j].op = "synth" =>
            {calls[i].name : i \in {k \in 1..(j - 1) : calls[k].op = "Tags.add"}}
              = TagKeys
    /\ \A j \in 1..Len(calls) :
          calls[j].op = "Tags.add" =>
            \E i \in 1..(j - 1) : calls[i].op = "add_programmatic_client"

C7_Witness ==
    /\ pc = "done"
    /\ Len(calls) = 16
    /\ calls[1].op = "add_cognito_group_with_existing_role"
    /\ calls[8].op = "add_oidc_provider"
    /\ calls[9].op = "add_programmatic_client"
    /\ calls[16].op = "synth"

----------------------------------------------------------------------------
Last(seq) == seq[Len(seq)]

\* The statements that call the stack, cdk.Tags or the app, and what they call.
OpsAt(p) ==
    CASE p = "data_managers" -> {"add_cognito_group_with_existing_role"}
      [] p = "groups" -> {"add_cognito_group"}
      [] p = "resource_server" -> {"add_resource_server"}
      [] p = "service_client" -> {"add_service_client"}
      [] p = "oidc" -> {"add_oidc_provider"}
      [] p = "programmatic_client" -> {"add_programmatic_client"}
      [] p = "apply_tags" -> {"Tags.add"}
      [] p = "synth" -> {"synth"}
      [] OTHER -> {}

BuilderStatements ==
    {"data_managers", "groups", "resource_server", "service_client", "oidc",
     "programmatic_client"}

C8_FailureState ==
    failedAt # None =>
        /\ pc = "terminated"
        /\ failedAt \in {"load_config", "git_sha", "git_tag"} =>
              /\ tags = <<>> /\ app = Unset /\ stack = NoStack /\ calls = <<>>
        /\ failedAt = "load_config" => git_sha = Unset
        /\ failedAt \in {"load_config", "git_sha"} =>
              git_tag = Unset /\ gitTagOutcome.result = "not_run"
        /\ failedAt = "new_stack" => stack = NoStack /\ calls = <<>>
        /\ OpsAt(failedAt) # {} =>
              /\ calls # <<>>
              /\ Last(calls).op \in OpsAt(failedAt)
              /\ \A i \in 1..(Len(calls) - 1) : calls[i] # Last(calls)
        /\ failedAt \in BuilderStatements => AppliedTags = <<>>
        /\ failedAt # "synth" => CallsOf("synth") = <<>>

(* C8: a failure of any statement but the caught git describe error ends the
   run at that statement: nothing runs after it and nothing is retried.  When
   git rev-parse fails no stack is constructed and no call is made; when a
   builder call fails it is the last call of the run, made once, and no tag is
   added and synth is not called. *)
C8_FailureTerminates ==
    /\ []C8_FailureState
    /\ [][pc # "terminated"]_vars

C8_Witness ==
    /\ pc = "terminated"
    /\ failedAt = "resource_server"
    /\ Len(calls) = 6
    /\ Last(calls).op = "add_resource_server"

C8_WitnessGitSha ==
    /\ pc = "terminated"
    /\ failedAt = "git_sha"
    /\ stack = NoStack

----------------------------------------------------------------------------
OidcCalls == CallsOf("add_oidc_provider")

(* C9: add_oidc_provider is called iff config.oidc_thumbprint and
   config.oidc_provider_url are both set and non-empty, and then once, named
   "ghgc-oidc-provider-" followed by config.stage, with the configured URL
   and thumbprint; add_programmatic_client("ghgc-sdk") is called exactly once
   in every completed run, whether or not the provider was registered. *)
C9_OidcIffBothSet ==
    /\ Len(OidcCalls) <= 1
    /\ \A c \in Range(OidcCalls) :
          /\ c.name = "ghgc-oidc-provider-" \o config.stage
          /\ c.url = config.oidc_provider_url
          /\ c.thumbprint = config.oidc_thumbprint
    /\ Completed("oidc") =>
          (Len(OidcCalls) = 1
             <=> /\ config.oidc_thumbprint \notin {None, ""}
                 /\ config.oidc_provider_url \notin {None, ""})
    /\ pc = "done" =>
          /\ Len(CallsOf("add_programmatic_client")) = 1
          /\ CallsOf("add_programmatic_client")[1].name = "ghgc-sdk"

C9_Witness ==
    /\ pc = "done"
    /\ config.oidc_thumbprint = "9e99a48a"
    /\ config.oidc_provider_url = None
    /\ OidcCalls = <<>>
    /\ Len(CallsOf("add_programmatic_client")) = 1

C9_WitnessRegistered ==
    /\ pc = "done"
    /\ Len(OidcCalls) = 1
    /\ OidcCalls[1].name = "ghgc-oidc-provider-dev"

----------------------------------------------------------------------------
(* C10: when a permissions-boundary policy name is configured, the stack that
   receives the builder calls and is synthesized has had the policy applied
   to it; when none is configured no boundary is applied. *)
C10_BoundaryOnStack ==
    stack # NoStack =>
        stack.boundary =
            IF auth_app_settings.permissions_boundary_policy_name
                 \notin {None, ""}
            THEN auth_app_settings.permissions_boundary_policy_name
            ELSE None
====
